---------------------------- MODULE Spec2Model ----------------------------
(***************************************************************************)
(* Model of src/architect.py: DARTSArchitect and BinaryGateArchitect.      *)
(*                                                                         *)
(* Tensors.  Every weight tensor is a one-element tensor; every alpha      *)
(* group (one per decision point) is a vector of NOps logits.  A tensor    *)
(* element is a binary floating-point number: a finite value is an integer *)
(* count of the quantum 2^-FracBits, kept to MantBits significant bits by  *)
(* round-to-nearest-even after every operation, or one of +Inf, -Inf, NaN, *)
(* which torch arithmetic produces instead of raising.  None is Python's   *)
(* None (an undefined gradient).                                           *)
(***************************************************************************)
EXTENDS Integers, Sequences, FiniteSets, TLC

\* ------------------------------------------------------------- bounds
FracBits == 10
MantBits == 8
NW == 2
NOps == 2
NA == 1
MaxSteps == 2

RECURSIVE Pow2(_)
Pow2(n) == IF n = 0 THEN 1 ELSE 2 * Pow2(n - 1)

SCALE == Pow2(FracBits)
MantLimit == Pow2(MantBits)

\* ------------------------------------------------------ number domain
Fin(n) == <<"fin", n>>
PInf == <<"inf", 1>>
NInf == <<"inf", -1>>
NaN == <<"nan", 0>>
None == <<"none", 0>>

IsFin(x) == x[1] = "fin"
IsInf(x) == x[1] = "inf"
IsNaN(x) == x[1] = "nan"
Val(x) == x[2]

Abs(n) == IF n < 0 THEN -n ELSE n
Sgn(n) == IF n < 0 THEN -1 ELSE IF n > 0 THEN 1 ELSE 0
SignOf(x) == Sgn(x[2])
Inf(s) == IF s < 0 THEN NInf ELSE PInf

\* the spacing of representable numbers at magnitude m
RECURSIVE StepFor(_, _)
StepFor(m, s) == IF m < MantLimit * s THEN s ELSE StepFor(m, 2 * s)

\* num/den (den > 0) rounded to the nearest representable number, ties to even
RoundDiv(num, den) ==
    LET m == Abs(num)
        s == StepFor(m \div den, 1)
        u == den * s
        q == m \div u
        r == m % u
        up == (2 * r > u) \/ (2 * r = u /\ q % 2 = 1)
    IN  Sgn(num) * s * (IF up THEN q + 1 ELSE q)

Round(n) == RoundDiv(n, 1)

\* torch: a + b
FAdd(a, b) ==
    IF IsNaN(a) \/ IsNaN(b) THEN NaN
    ELSE IF IsInf(a) /\ IsInf(b) THEN (IF a = b THEN a ELSE NaN)
    ELSE IF IsInf(a) THEN a
    ELSE IF IsInf(b) THEN b
    ELSE Fin(Round(Val(a) + Val(b)))

FNeg(a) == IF IsFin(a) \/ IsInf(a) THEN <<a[1], -a[2]>> ELSE a

\* torch: a - b
FSub(a, b) == FAdd(a, FNeg(b))

\* torch: a * b
FMul(a, b) ==
    IF IsNaN(a) \/ IsNaN(b) THEN NaN
    ELSE IF IsInf(a) \/ IsInf(b)
         THEN (IF SignOf(a) * SignOf(b) = 0 THEN NaN ELSE Inf(SignOf(a) * SignOf(b)))
    ELSE Fin(RoundDiv(Val(a) * Val(b), SCALE))

\* torch: a / b  (division by zero yields Inf or NaN, it does not raise)
FDiv(a, b) ==
    IF IsNaN(a) \/ IsNaN(b) THEN NaN
    ELSE IF IsInf(a) THEN (IF IsInf(b) THEN NaN
                           ELSE Inf(SignOf(a) * (IF SignOf(b) < 0 THEN -1 ELSE 1)))
    ELSE IF IsInf(b) THEN Fin(0)
    ELSE IF Val(b) = 0 THEN (IF Val(a) = 0 THEN NaN ELSE Inf(SignOf(a)))
    ELSE Fin(RoundDiv(Val(a) * SCALE * Sgn(Val(b)), Abs(Val(b))))

\* a literal n/d of the source, as the nearest representable number
Lit(n, d) == Fin(RoundDiv(n * SCALE, d))

\* torch.sqrt on an exact integer: the nearest integer to sqrt(n)
RECURSIVE ISqrtBin(_, _, _)
ISqrtBin(n, lo, hi) ==
    IF hi - lo <= 1 THEN lo
    ELSE LET mid == (lo + hi) \div 2
         IN  IF mid * mid <= n THEN ISqrtBin(n, mid, hi) ELSE ISqrtBin(n, lo, mid)

ISqrt(n) ==
    LET r == ISqrtBin(n, 0, 46341)
    IN  IF n - r * r > r THEN r + 1 ELSE r

\* torch.exp: Horner evaluation of the Taylor series in the quantum, then rounded
ExpTerms == 10

RECURSIVE ExpHorner(_, _)
ExpHorner(n, i) ==
    IF i > ExpTerms THEN SCALE
    ELSE SCALE + (n * ExpHorner(n, i + 1)) \div (i * SCALE)

FExp(a) ==
    IF IsNaN(a) THEN NaN
    ELSE IF IsInf(a) THEN (IF a = PInf THEN PInf ELSE Fin(0))
    ELSE Fin(Round(ExpHorner(Val(a), 1)))

\* torch.log: log(0) = -Inf and log(x < 0) = NaN, without raising
RECURSIVE Log2Floor(_)
Log2Floor(n) == IF n < 2 THEN 0 ELSE 1 + Log2Floor(n \div 2)

LnUnits(n) ==
    LET e == Log2Floor(n) - FracBits
        y == IF e >= 0 THEN n \div Pow2(e) ELSE n * Pow2(-e)
        z == ((y - SCALE) * SCALE) \div (y + SCALE)
        z2 == (z * z) \div SCALE
        z3 == (z * z2) \div SCALE
        z5 == (z3 * z2) \div SCALE
        z7 == (z5 * z2) \div SCALE
        ln2 == (6931 * SCALE) \div 10000
    IN  e * ln2 + 2 * (z + z3 \div 3 + z5 \div 5 + z7 \div 7)

FLog(a) ==
    IF IsNaN(a) THEN NaN
    ELSE IF IsInf(a) THEN (IF a = PInf THEN PInf ELSE NaN)
    ELSE IF Val(a) = 0 THEN NInf
    ELSE IF Val(a) < 0 THEN NaN
    ELSE Fin(Round(LnUnits(Val(a))))

\* ------------------------------------------------------------ tensors
Zero == Fin(0)
One == Fin(SCALE)
Two == Fin(2 * SCALE)

WIdx == 1..NW
AIdx == 1..NA
OpIdx == 1..NOps

\* an alpha-shaped tensor holding c everywhere
Full(c) == [i \in OpIdx |-> c]
VSub(x, y) == [i \in OpIdx |-> FSub(x[i], y[i])]
VScale(c, x) == [i \in OpIdx |-> FMul(c, x[i])]
VHalf(x) == [i \in OpIdx |-> FDiv(x[i], Two)]
VDiv(x, c) == [i \in OpIdx |-> FDiv(x[i], c)]
VFinite(x) == \A i \in OpIdx : IsFin(x[i])

RECURSIVE SetToSeq(_)
SetToSeq(S) ==
    IF S = {} THEN <<>>
    ELSE LET m == CHOOSE x \in S : \A y \in S : x <= y
         IN  <<m>> \o SetToSeq(S \ {m})

Min(a, b) == IF a < b THEN a ELSE b

\* ------------------------------------------------------- constructor
\* weights of the net handed to __init__, and its alphas
W0 == [i \in WIdx |-> Fin(i * SCALE)]
Alpha0 == [d \in AIdx |-> Full(Zero)]
W_MOMENTUM == Lit(1, 2)
W_WEIGHT_DECAY == Lit(1, 4)
\* step arguments and collaborators' inputs
XiVals == {Lit(1, 8)}
TrnGradVals == {Lit(1, 2)}
\* directions: all zero, (3, 4, 4, ...) and (0, ..., 0, 3)
DwVals == {[i \in WIdx |-> Zero],
           [i \in WIdx |-> IF i = 1 THEN Fin(3 * SCALE) ELSE Fin(4 * SCALE)],
           [i \in WIdx |-> IF i = NW THEN Fin(3 * SCALE) ELSE Zero]}
AlphaGradVals == {Zero, One}
A_LR == One
\* w_optim.state[w]: no entry, an entry without a buffer, or a momentum buffer
Absent == <<"absent", 0>>
Empty == <<"empty", 0>>
\* no weight, the first weight only, or every weight has a momentum buffer
StateVals == {[i \in WIdx |-> IF i <= j THEN Lit(1, 4) ELSE Absent] : j \in {0, 1, NW}}

VARIABLES
    variant, unrolled, renorm, n_samples,   \* the architect object
    w, vw, alpha, valpha, agrad,            \* net / v_net parameters, alpha.grad
    wstate,                                 \* w_optim.state
    s_op, a_used,                           \* sampling state of the decision points
    pc, err, steps, trace,                  \* position in step, raised error, log
    xi, dw, dalpha, eps, dalpha_pos, dalpha_neg, hessian, prev_pw, alpha_pre

vars == <<variant, unrolled, renorm, n_samples, w, vw, alpha, valpha, agrad,
          wstate, s_op, a_used, pc, err, steps, trace,
          xi, dw, dalpha, eps, dalpha_pos, dalpha_neg, hessian, prev_pw, alpha_pre>>

config == <<variant, unrolled, renorm, n_samples>>
locals == <<xi, dw, dalpha, eps, dalpha_pos, dalpha_neg, hessian, prev_pw, alpha_pre>>

NoLocals ==
    /\ xi = None /\ dw = <<>> /\ dalpha = <<>> /\ eps = None
    /\ dalpha_pos = <<>> /\ dalpha_neg = <<>> /\ hessian = <<>> /\ prev_pw = <<>>
    /\ alpha_pre = <<>>

\* -------------------------------------------------- model capability
\* the decision point and the operation a weight belongs to; weight 1 belongs to
\* no candidate operation (0) and is always part of the graph
DpOf(i) == IF i = 1 THEN 0 ELSE (((i - 2) \div NOps) % NA) + 1
OpOf(i) == IF i = 1 THEN 0 ELSE ((i - 2) % NOps) + 1

NoSample == [d \in AIdx |-> {}]

\* the weights that are part of the active (sampled) graph
Active(i) == OpOf(i) = 0 \/ s_op[DpOf(i)] = {} \/ OpOf(i) \in s_op[DpOf(i)]

\* net.weights() / v_net.weights(): all weights, in the model's order
Weights == SetToSeq(WIdx)
\* net.weights(check_grad=True)
WeightsCheckGrad == SetToSeq({i \in WIdx : Active(i)})

\* the operations of decision point d that take part in the graph
OpsOf(d) == IF s_op[d] = {} THEN OpIdx ELSE s_op[d]
\* an alpha gradient: c on the operations of the graph, zero elsewhere
GVec(c, d) == [i \in OpIdx |-> IF i \in OpsOf(d) THEN c ELSE Zero]

\* v_net.alphas(): the gated variant's modules share the alpha tensors
VNetAlphas == IF variant = "gate" THEN alpha ELSE valpha

Log(e) == trace' = Append(trace, e)
Raise(e) == /\ pc' = "raised" /\ err' = e

\* ---------------------------------------------------------- step
\* a_optim.zero_grad(): an existing alpha.grad is zeroed, a missing one stays None
ZeroGrad ==
    /\ pc = "idle" /\ steps < MaxSteps
    /\ xi' \in XiVals
    /\ agrad' = [d \in AIdx |-> IF agrad[d] = None THEN None ELSE Full(Zero)]
    /\ trace' = <<"zero_grad">>
    /\ pc' = IF variant = "darts" THEN "virtual" ELSE "sample"
    /\ UNCHANGED <<config, w, vw, alpha, valpha, wstate, s_op, a_used, err, steps,
                   dw, dalpha, eps, dalpha_pos, dalpha_neg, hessian, prev_pw, alpha_pre>>

\* NASModule.param_module_call('sample_ops', n_samples=self.n_samples)
SampleOps ==
    /\ pc = "sample"
    /\ s_op' \in [AIdx -> {T \in SUBSET OpIdx : Cardinality(T) = n_samples}]
    /\ a_used' \in [AIdx -> BOOLEAN]
    /\ Log("sample_ops")
    /\ pc' = IF unrolled THEN "virtual" ELSE "first_order"
    /\ UNCHANGED <<config, w, vw, alpha, valpha, agrad, wstate, err, steps, locals>>

\* loss.backward restricted to the alphas: the gradient is added to alpha.grad
Accumulate(g, x) == IF g = None THEN x ELSE [i \in OpIdx |-> FAdd(g[i], x[i])]

\* not unrolled: loss = self.net.loss(val_X, val_y); self.net.alpha_backward(loss)
FirstOrder ==
    /\ pc = "first_order"
    /\ \E c \in AlphaGradVals :
          agrad' = [d \in AIdx |-> IF a_used[d] THEN Accumulate(agrad[d], GVec(c, d))
                                   ELSE agrad[d]]
    /\ trace' = trace \o <<"loss", "grad">>
    /\ pc' = "renorm_pre"
    /\ UNCHANGED <<config, w, vw, alpha, valpha, wstate, s_op, a_used, err, steps, locals>>

\* the weight sequences zipped in virtual_step and compute_hessian
RealSeq == IF variant = "darts" THEN Weights ELSE WeightsCheckGrad
VirtSeq == IF variant = "darts" THEN Weights ELSE WeightsCheckGrad

\* w_optim.state[w]: state is a defaultdict(dict), a lookup adds a missing entry
StateLookup(st) == IF st = Absent THEN Empty ELSE st
\* .get('momentum_buffer', 0.)
MomentumBuffer(st) == IF st = Absent \/ st = Empty THEN Zero ELSE st

\* w - xi * (m + g + self.w_weight_decay*w)
VirtualWeight(wv, st, g) ==
    LET m == FMul(MomentumBuffer(st), W_MOMENTUM)
    IN  FSub(wv, FMul(xi, FAdd(FAdd(m, g), FMul(W_WEIGHT_DECAY, wv))))

\* the synchronization loop left out
SyncAlphasStale == valpha

\* synchronize alphas: va.copy_(a), in DARTSArchitect only
SyncAlphas == IF variant = "darts" THEN alpha ELSE valpha

VirtualStep ==
    /\ pc = "virtual"
    /\ \E g \in TrnGradVals :
         LET n == Min(Len(RealSeq), Len(VirtSeq))
         IN  /\ vw' = [j \in WIdx |->
                        IF \E k \in 1..n : VirtSeq[k] = j
                        THEN LET k == CHOOSE k \in 1..n : VirtSeq[k] = j
                             IN  VirtualWeight(w[RealSeq[k]], wstate[RealSeq[k]], g)
                        ELSE vw[j]]
             /\ wstate' = [i \in WIdx |->
                        IF \E k \in 1..n : RealSeq[k] = i
                        THEN StateLookup(wstate[i]) ELSE wstate[i]]
    /\ valpha' = SyncAlphas
    /\ trace' = trace \o <<"loss", "grad">>
    /\ pc' = "val_loss"
    /\ UNCHANGED <<config, w, alpha, agrad, s_op, a_used, err, steps, locals>>

\* the call made with allow_unused=True
UnusedAllowed == FALSE

\* torch.autograd.grad(loss, v_weights) without allow_unused raises when a weight
\* is not part of the graph
UnusedRaises == \E i \in WIdx : ~Active(i)

\* loss = self.v_net.loss(val_X, val_y) and its gradients
ValGrad ==
    /\ pc = "val_loss"
    /\ trace' = trace \o <<"loss", "grad">>
    /\ IF variant = "gate" /\ UnusedRaises
       THEN /\ Raise("dw_unused")
            /\ UNCHANGED <<dw, dalpha>>
       ELSE /\ \E dv \in DwVals :
                  dw' = [k \in 1..Len(Weights) |->
                           IF Active(Weights[k]) THEN dv[Weights[k]] ELSE None]
            /\ \E c \in AlphaGradVals :
                  dalpha' = [d \in AIdx |-> IF a_used[d] THEN GVec(c, d) ELSE None]
            /\ pc' = "hess_plus" /\ UNCHANGED err
    /\ UNCHANGED <<config, w, vw, alpha, valpha, agrad, wstate, s_op, a_used, steps,
                   xi, eps, dalpha_pos, dalpha_neg, hessian, prev_pw, alpha_pre>>

\* ------------------------------------------------- compute_hessian
\* torch.cat([w.view(-1) for w in dw if not w is None]).norm()
RECURSIVE SumSq(_)
SumSq(q) == IF q = <<>> THEN 0 ELSE Val(Head(q)) * Val(Head(q)) + SumSq(Tail(q))

Defined(q) == SelectSeq(q, LAMBDA x : x # None)

Norm(q) ==
    IF \E k \in 1..Len(q) : ~IsFin(q[k]) THEN NaN
    ELSE Fin(Round(ISqrt(SumSq(q))))

\* eps = 0.01 / norm
Eps(q) == FDiv(Lit(1, 100), Norm(q))

\* p += eps * d
PlusEps(p, e, d) == FAdd(p, FMul(e, d))
\* p -= 2. * eps * d
MinusTwoEps(p, e, d) == FSub(p, FMul(FMul(Two, e), d))

\* one pass of "for p, d in zip(weights, dw)": stage 1 and 3 add, stage 2 subtracts
Perturb(ww, e, stage) ==
    LET n == Min(Len(RealSeq), Len(dw))
    IN  [i \in WIdx |->
           IF \E k \in 1..n : RealSeq[k] = i /\ dw[k] # None
           THEN LET k == CHOOSE k \in 1..n : RealSeq[k] = i
                IN  IF stage = 2 THEN MinusTwoEps(ww[i], e, dw[k])
                    ELSE PlusEps(ww[i], e, dw[k])
           ELSE ww[i]]

\* torch.autograd.grad(loss, self.net.alphas(), allow_unused=True)
AlphaGrads(c) == [d \in AIdx |-> IF a_used[d] THEN GVec(c, d) ELSE None]

HessPlus ==
    /\ pc = "hess_plus"
    /\ IF Defined(dw) = <<>>
       THEN /\ Raise("cat_empty")
            /\ UNCHANGED <<w, eps, dalpha_pos, trace>>
       ELSE /\ eps' = Eps(Defined(dw))
            /\ w' = Perturb(w, eps', 1)
            /\ \/ /\ Raise("loss_pos")
                  /\ Log("loss")
                  /\ UNCHANGED dalpha_pos
               \/ /\ \E c \in AlphaGradVals : dalpha_pos' = AlphaGrads(c)
                  /\ trace' = trace \o <<"loss", "grad">>
                  /\ pc' = "hess_minus" /\ UNCHANGED err
    /\ UNCHANGED <<config, vw, alpha, valpha, agrad, wstate, s_op, a_used, steps,
                   xi, dw, dalpha, dalpha_neg, hessian, prev_pw, alpha_pre>>

HessMinus ==
    /\ pc = "hess_minus"
    /\ w' = Perturb(w, eps, 2)
    /\ \/ /\ Raise("loss_neg")
          /\ Log("loss")
          /\ UNCHANGED dalpha_neg
       \/ /\ \E c \in AlphaGradVals : dalpha_neg' = AlphaGrads(c)
          /\ trace' = trace \o <<"loss", "grad">>
          /\ pc' = "hess_restore" /\ UNCHANGED err
    /\ UNCHANGED <<config, vw, alpha, valpha, agrad, wstate, s_op, a_used, steps,
                   xi, dw, dalpha, eps, dalpha_pos, hessian, prev_pw, alpha_pre>>

\* (p-n) / 2.*eps
Correction(p, n, e) == VScale(e, VHalf(VSub(p, n)))

\* hessian = [((p-n) / 2.*eps if not p is None else 0) for p, n in zip(...)]
Hessian(pos, neg, e) ==
    [d \in AIdx |-> IF pos[d] = None THEN Full(Zero) ELSE Correction(pos[d], neg[d], e)]

HessRestore ==
    /\ pc = "hess_restore"
    /\ w' = Perturb(w, eps, 3)
    /\ hessian' = Hessian(dalpha_pos, dalpha_neg, eps)
    /\ pc' = "write_grad"
    /\ UNCHANGED <<config, vw, alpha, valpha, agrad, wstate, s_op, a_used, err, steps,
                   trace, xi, dw, dalpha, eps, dalpha_pos, dalpha_neg, prev_pw, alpha_pre>>

\* alpha.grad = da - xi*h, in the order of net.alphas(); None - tensor raises
WriteGrad ==
    /\ pc = "write_grad"
    /\ LET bad == {d \in AIdx : dalpha[d] = None}
           stop == IF bad = {} THEN NA + 1 ELSE CHOOSE d \in bad : \A e \in bad : d <= e
       IN  /\ agrad' = [d \in AIdx |->
                          IF d < stop THEN VSub(dalpha[d], VScale(xi, hessian[d]))
                          ELSE agrad[d]]
           /\ IF bad = {}
              THEN pc' = (IF variant = "darts" THEN "a_step" ELSE "renorm_pre")
                   /\ UNCHANGED err
              ELSE Raise("da_none")
    /\ UNCHANGED <<config, w, vw, alpha, valpha, wstate, s_op, a_used, steps, trace, locals>>

\* ---------------------------------------------------- renormalization
RECURSIVE SumExp(_, _)
SumExp(p, q) == IF q = <<>> THEN Zero ELSE FAdd(SumExp(p, SubSeq(q, 1, Len(q) - 1)),
                                                FExp(p[q[Len(q)]]))

\* k = torch.sum(torch.exp(pdt)) / torch.sum(torch.exp(pp)) - 1
RenormK(p, s) == FSub(FDiv(SumExp(p, SetToSeq(OpIdx)), SumExp(p, SetToSeq(s))), One)

RenormPre ==
    /\ pc = "renorm_pre"
    /\ IF renorm
       THEN /\ prev_pw' = [d \in AIdx |-> RenormK(alpha[d], s_op[d])]
            /\ Log("k_pre")
       ELSE UNCHANGED <<prev_pw, trace>>
    /\ pc' = "a_step"
    /\ UNCHANGED <<config, w, vw, alpha, valpha, agrad, wstate, s_op, a_used, err, steps,
                   xi, dw, dalpha, eps, dalpha_pos, dalpha_neg, hessian, alpha_pre>>

\* a_optim.step(): gradient descent on the alphas that have a gradient
OptimUpdate(a, g) == IF g = None THEN a ELSE VSub(a, VScale(A_LR, g))

EndStep ==
    /\ pc' = "idle" /\ steps' = steps + 1
    /\ xi' = None /\ dw' = <<>> /\ dalpha' = <<>> /\ eps' = None
    /\ dalpha_pos' = <<>> /\ dalpha_neg' = <<>> /\ hessian' = <<>> /\ prev_pw' = <<>>
    /\ alpha_pre' = <<>>

AOptimStep ==
    /\ pc = "a_step"
    /\ alpha' = [d \in AIdx |-> OptimUpdate(alpha[d], agrad[d])]
    /\ Log("a_optim.step")
    /\ IF variant = "darts"
       THEN EndStep
       ELSE /\ pc' = "renorm_post" /\ alpha_pre' = alpha
            /\ UNCHANGED <<steps, xi, dw, dalpha, eps, dalpha_pos, dalpha_neg, hessian,
                           prev_pw>>
    /\ UNCHANGED <<config, w, vw, valpha, agrad, wstate, s_op, a_used, err>>

\* torch.log(k) - torch.log(kprev)
Shift(k, kprev) == FSub(FLog(k), FLog(kprev))

\* for i in s_op: p[i] += (torch.log(k) - torch.log(kprev))
Renormalize(p, s, kprev) ==
    LET k == RenormK(p, s)
    IN  [i \in OpIdx |-> IF i \in s THEN FAdd(p[i], Shift(k, kprev)) ELSE p[i]]

RenormPost ==
    /\ pc = "renorm_post"
    /\ IF renorm
       THEN /\ alpha' = [d \in AIdx |-> Renormalize(alpha[d], s_op[d], prev_pw[d])]
            /\ Log("shift")
       ELSE UNCHANGED <<alpha, trace>>
    /\ pc' = "reset"
    /\ UNCHANGED <<config, w, vw, valpha, agrad, wstate, s_op, a_used, err, steps, locals>>

\* step returning without the reset_ops call
ResetOpsMissing ==
    /\ pc = "reset"
    /\ EndStep
    /\ UNCHANGED <<config, w, vw, alpha, valpha, agrad, wstate, s_op, a_used, err, trace>>

\* NASModule.module_call('reset_ops')
ResetOps ==
    /\ pc = "reset"
    /\ s_op' = NoSample /\ a_used' = [d \in AIdx |-> TRUE]
    /\ Log("reset_ops")
    /\ EndStep
    /\ UNCHANGED <<config, w, vw, alpha, valpha, agrad, wstate, err>>

Init ==
    /\ variant \in {"darts", "gate"}
    /\ unrolled \in (IF variant = "darts" THEN {TRUE} ELSE BOOLEAN)
    /\ renorm \in (IF variant = "darts" THEN {FALSE} ELSE BOOLEAN)
    /\ n_samples \in (IF variant = "darts" THEN {NOps} ELSE OpIdx)
    /\ w = W0 /\ vw = W0
    /\ alpha = Alpha0 /\ valpha = Alpha0
    /\ agrad = [d \in AIdx |-> None]
    /\ wstate \in StateVals
    /\ s_op = NoSample /\ a_used = [d \in AIdx |-> TRUE]
    /\ pc = "idle" /\ err = "none" /\ steps = 0 /\ trace = <<>>
    /\ NoLocals

Next ==
    \/ ZeroGrad
    \/ SampleOps
    \/ FirstOrder
    \/ VirtualStep
    \/ ValGrad
    \/ HessPlus
    \/ HessMinus
    \/ HessRestore
    \/ WriteGrad
    \/ RenormPre
    \/ AOptimStep
    \/ RenormPost
    \/ ResetOps

Spec == Init /\ [][Next]_vars

\* ------------------------------------------------------------ claims
InHessian == pc \in {"hess_minus", "hess_restore"}
RaisedInHessian == pc = "raised" /\ err \in {"loss_pos", "loss_neg"}

\* C1: for every alpha group whose dalpha_pos is defined, compute_hessian returns
\* (dalpha_pos - dalpha_neg) / (2 * eps).  Stated for the calls with a finite eps.
C1_CentralDifference ==
    (pc = "write_grad" /\ IsFin(eps)) =>
        \A d \in AIdx : dalpha_pos[d] # None =>
            hessian[d] = VDiv(VSub(dalpha_pos[d], dalpha_neg[d]), FMul(Two, eps))

\* C2: after any sequence of compute_hessian calls that returned normally, every
\* real weight equals its value before the first call.  Stated for the calls whose
\* perturbations were finite.
C2_WeightsRestored ==
    (~InHessian /\ ~RaisedInHessian /\ \A i \in WIdx : IsFin(w[i])) => w = W0

\* C3: when compute_hessian fails between perturbation and restoration, the real
\* weights are back at their pre-call values when the error propagates.  Stated
\* for the calls with a finite eps.
C3_RestoredOnFailure ==
    (RaisedInHessian /\ IsFin(eps)) => w = W0

\* C4: virtual_step changes no real weight, no real alpha and nothing of the weight
\* optimizer's state, the set of parameters with a state entry included.
C4_VirtualStepFrame ==
    [][pc = "virtual" => (w' = w /\ alpha' = alpha /\ wstate' = wstate)]_vars

\* C5: BinaryGateArchitect.step completes without raising when a weight or an alpha
\* has an undefined gradient, and the grad of such an alpha is untouched or zero,
\* never NaN.
C5_GatedSubsetTolerated ==
    variant = "gate" =>
        /\ ~(pc = "raised" /\ err \in {"dw_unused", "da_none", "cat_empty"})
        /\ \A d \in AIdx : (~a_used[d] /\ agrad[d] # None) => VFinite(agrad[d])

\* C6: whenever v_net.loss is evaluated, in either variant and after any number of
\* steps, the virtual model's alphas equal the real model's alphas.
C6_VirtualAlphasInSync ==
    pc = "val_loss" => VNetAlphas = alpha

C6_Witness ==
    pc = "val_loss" /\ steps >= 1 /\ alpha # Alpha0 /\ variant = "darts"

\* C7: when the direction dw has norm zero or no defined entry, compute_hessian
\* returns no correction, writes no Inf/NaN into a real weight, and step does not
\* reach a_optim.step: step goes on only by raising.
Degenerate == dw # <<>> /\ (Defined(dw) = <<>> \/ Norm(Defined(dw)) = Zero)

Occurs(e) == \E k \in 1..Len(trace) : trace[k] = e

C7_DegenerateDirectionFails ==
    (Degenerate /\ pc # "raised") =>
        /\ hessian = <<>>
        /\ \A i \in WIdx : IsFin(w[i])
        /\ ~Occurs("a_optim.step")

\* C8: with renorm, when a_optim.step leaves the logits unchanged, k after the step
\* equals k before it, the shift is exactly zero, and the logits after step equal
\* the logits before step, for every sampled subset.
C8_RenormRoundTrip ==
    (pc = "reset" /\ renorm
       /\ \A d \in AIdx : OptimUpdate(alpha_pre[d], agrad[d]) = alpha_pre[d]) =>
        \A d \in AIdx :
            /\ RenormK(alpha_pre[d], s_op[d]) = prev_pw[d]
            /\ Shift(RenormK(alpha_pre[d], s_op[d]), prev_pw[d]) = Zero
            /\ alpha[d] = alpha_pre[d]

\* C9: every BinaryGateArchitect.step that returns has run zero_grad, then
\* sample_ops exactly once before any loss, then the gradient computation, then the
\* pre-update k, then a_optim.step exactly once, then the shift, then reset_ops
\* exactly once and last; between two completed steps the sampling state is reset.
Count(e) == Cardinality({k \in 1..Len(trace) : trace[k] = e})
Pos(e) == CHOOSE k \in 1..Len(trace) : trace[k] = e

C9_StepEventOrder ==
    (variant = "gate" /\ pc = "idle" /\ steps > 0) =>
        /\ s_op = NoSample
        /\ trace[1] = "zero_grad" /\ Count("zero_grad") = 1
        /\ trace[2] = "sample_ops" /\ Count("sample_ops") = 1
        /\ Count("a_optim.step") = 1
        /\ Count("reset_ops") = 1 /\ trace[Len(trace)] = "reset_ops"
        /\ Occurs("loss") /\ Occurs("grad")
        /\ \A k \in 1..Len(trace) :
              trace[k] \in {"loss", "grad"} => (2 < k /\ k < Pos("a_optim.step"))
        /\ IF renorm
           THEN /\ Count("k_pre") = 1 /\ Count("shift") = 1
                /\ Pos("k_pre") = Pos("a_optim.step") - 1
                /\ Pos("shift") = Pos("a_optim.step") + 1
                /\ Pos("reset_ops") = Pos("shift") + 1
           ELSE /\ Count("k_pre") = 0 /\ Count("shift") = 0
                /\ Pos("reset_ops") = Pos("a_optim.step") + 1

C9_Witness ==
    variant = "gate" /\ pc = "idle" /\ steps >= 2 /\ renorm /\ unrolled

=============================================================================
